---- MODULE Spec2Model ----
(***************************************************************************)
(* Model of the campaign data layer of dnd-mcp:                            *)
(*   - the response cache (APICache) as used by SupabaseClient,            *)
(*   - SupabaseClient.get / insert / update / delete with invalidation,    *)
(*   - the inventory and currency mutators built on top of them.           *)
(* Every remote request of a mutator is one step of the calling process;   *)
(* the cache lookup / store / invalidation that surrounds a request in the *)
(* code is part of the same step.                                          *)
(***************************************************************************)
EXTENDS Integers, Sequences, FiniteSets, TLC

(* ----------------------------- bounds ---------------------------------- *)
MaxCalls == 3        \* number of top-level calls in one behaviour
MaxQty   == 1        \* largest quantity argument of an inventory call
MaxAmt   == 1        \* largest amount of one denomination in a currency call

(* ----------------------------- universe -------------------------------- *)
Procs == {1, 2}
Locs  == {"A", "B"}
Items == {"Torch"}
Denom == {"copper", "silver", "electrum", "gold", "platinum"}

\* Optional[int]: <<>> is None, <<n>> is the integer n.
None == <<>>
Some(n) == <<n>>
\* Python truth value of an Optional[int] (None and 0 are falsy).
Truthy(q) == q # None /\ q[1] # 0

\* a removal that forgets the lower bound
Max_unclamped(a, b) == b
Max(a, b) == IF a >= b THEN a ELSE b
Abs(a) == IF a >= 0 THEN a ELSE -a

\* quantity arguments: any integer the tool accepts, here -1 .. MaxQty+1
QtyArgs == (-1)..(MaxQty + 1)
PosQtyArgs == 1..(MaxQty + 1)
OptQtyArgs == {None} \cup {Some(n) : n \in 0..(MaxQty + 1)}

\* currency arguments: the same amount n of every denomination of one purse
Purses == {{"copper", "electrum", "platinum"}, {"silver", "gold"}}
ZeroAmt == [d \in Denom |-> 0]
AmtArgs == {[d \in Denom |-> IF d \in S THEN n ELSE 0] : S \in Purses, n \in 0..MaxAmt}

(* ------------------------ table names and cache keys ------------------- *)
\* A table name split at "_"; a cache key is a sequence of such tokens, so
\* that str.startswith on a prefix ending in "_" is exactly IsPrefix below.
Tok ==
  [ inventory_current      |-> <<"inventory", "current">>,
    inventory_ledger       |-> <<"inventory", "ledger">>,
    currency_current       |-> <<"currency", "current">>,
    currency_ledger        |-> <<"currency", "ledger">>,
    v_inventory            |-> <<"v", "inventory">>,
    v_inventory_history    |-> <<"v", "inventory", "history">>,
    v_currency_by_location |-> <<"v", "currency", "by", "location">>,
    v_total_wealth         |-> <<"v", "total", "wealth">>,
    v_currency_history     |-> <<"v", "currency", "history">>,
    characters             |-> <<"characters">>,
    v_characters           |-> <<"v", "characters">>,
    character_spells       |-> <<"character", "spells">>,
    character_feats        |-> <<"character", "feats">>,
    character_forms        |-> <<"character", "forms">>,
    character_companions   |-> <<"character", "companions">>,
    v_character_spells     |-> <<"v", "character", "spells">>,
    v_character_feats      |-> <<"v", "character", "feats">>,
    v_character_forms      |-> <<"v", "character", "forms">>,
    v_character_companions |-> <<"v", "character", "companions">>,
    storage_locations      |-> <<"storage", "locations">>,
    diary_entries          |-> <<"diary", "entries">>,
    parties                |-> <<"parties">> ]

Tables == DOMAIN Tok

cache_prefix == "campaign"

IsPrefix(p, s) == Len(p) <= Len(s) /\ \A i \in 1..Len(p) : s[i] = p[i]

\* SupabaseClient._hash_query: a digest of the sorted parameters.  The digest
\* is taken to be collision free on the parameters of the model.
_hash_query(params) == ToString(params)

\* SupabaseClient._cache_key: f"{cache_prefix}_{table}_{query_hash}"
_cache_key(table, query_hash) == <<cache_prefix>> \o Tok[table] \o <<query_hash>>

\* Key written by the D&D reference tools that share the cache.
DndKey == <<"dnd", "items", "equipment">>

(* ------------------------------ APICache ------------------------------- *)
\* The cache is a function from its live keys to their values.
EmptyCache == [x \in {} |-> <<>>]

CacheHas(c, k) == k \in DOMAIN c
CacheSet(c, k, v) == [x \in (DOMAIN c) \cup {k} |-> IF x = k THEN v ELSE c[x]]
CacheLen(c) == Cardinality(DOMAIN c)
\* a clear_prefix that stops after the first key it removed
clear_prefix_first(c, prefix) ==
  LET match == {k \in DOMAIN c : IsPrefix(prefix, k)} IN
  IF match = {} THEN c
  ELSE [x \in (DOMAIN c) \ {CHOOSE k \in match : TRUE} |-> c[x]]
clear_prefix(c, prefix) == [x \in {k \in DOMAIN c : ~IsPrefix(prefix, k)} |-> c[x]]
\* the number clear_prefix returns: the keys it removed
clear_prefix_count(c, prefix) == Cardinality({k \in DOMAIN c : IsPrefix(prefix, k)})
\* "if ... self.cache": an object with __len__ and no __bool__ is false when
\* its length is 0.
CacheTruthy(c) == CacheLen(c) # 0

(* --------------------------- invalidation ------------------------------ *)
related ==
  [ inventory_current    |-> <<"v_inventory", "inventory_ledger">>,
    inventory_ledger     |-> <<"v_inventory_history">>,
    currency_current     |-> <<"v_currency_by_location", "v_total_wealth">>,
    currency_ledger      |-> <<"v_currency_history">>,
    characters           |-> <<"v_characters", "character_spells", "character_feats",
                               "character_forms", "character_companions">>,
    character_spells     |-> <<"v_character_spells">>,
    character_feats      |-> <<"v_character_feats">>,
    character_forms      |-> <<"v_character_forms">>,
    character_companions |-> <<"v_character_companions">>,
    storage_locations    |-> <<"v_inventory", "v_currency_by_location">>,
    diary_entries        |-> <<>> ]

Related(table) == IF table \in DOMAIN related THEN related[table] ELSE <<>>

invalidate_table_cache(c, table) == clear_prefix(c, <<cache_prefix>> \o Tok[table])

RECURSIVE InvalidateAll(_, _)
InvalidateAll(c, ts) ==
  IF ts = <<>> THEN c
  ELSE InvalidateAll(invalidate_table_cache(c, Head(ts)), Tail(ts))

\* an invalidation that forgets the dependent tables and views
invalidate_only_table(c, table) == invalidate_table_cache(c, table)
invalidate_related_caches(c, table) == InvalidateAll(c, <<table>> \o Related(table))

(* ------------------------------- state --------------------------------- *)
VARIABLES
  db,        \* remote store: table name -> set of rows
  nextId,    \* next row id handed out by the remote store
  cache,     \* the shared APICache
  pc,        \* per process: position inside the call it is running
  call,      \* per process: arguments and locals of the running call
  result,    \* per process: what the last finished call returned
  reqs,      \* per process: the requests its current (or last) call has issued
  calls      \* number of top-level calls started so far

vars == <<db, nextId, cache, pc, call, result, reqs, calls>>

BaseTables == {"inventory_current", "inventory_ledger",
               "currency_current", "currency_ledger"}

EmptyDb == [t \in BaseTables |-> {}]

\* Locals of a call.  rows/drows hold the lists returned by the reads,
\* xq the quantity computed from them; pre is the remote store and the cache
\* as they were when the call started (history, read by no action).
NoCall == [op |-> "none", loc |-> "A", to |-> "A", item |-> "Torch",
           qty |-> None, amt |-> ZeroAmt, rows |-> <<>>, drows |-> <<>>,
           xq |-> 0, pre |-> [db |-> EmptyDb, cache |-> EmptyCache]]


(* ---------------------------- remote store ----------------------------- *)
RECURSIVE Perms(_)
Perms(S) == IF S = {} THEN {<<>>}
            ELSE UNION {{<<x>> \o p : p \in Perms(S \ {x})} : x \in S}

\* Rows of a table that match the filters q.  q = <<loc, item>> selects an
\* inventory key, q = <<loc>> a location, q = <<>> everything.
Matching(rows, q) ==
  {r \in rows : /\ (Len(q) >= 1 => r.loc = q[1])
                /\ (Len(q) >= 2 => r.item = q[2])}

\* The table a view is computed from by the remote store.
ViewBase ==
  [ v_inventory            |-> "inventory_current",
    v_inventory_history    |-> "inventory_ledger",
    v_currency_by_location |-> "currency_current",
    v_total_wealth         |-> "currency_current",
    v_currency_history     |-> "currency_ledger" ]

ReadTables == BaseTables \cup DOMAIN ViewBase

\* Tables no mutator writes: the party, its characters, the storage locations.
StaticRows ==
  [ parties           |-> <<[name |-> "party"]>>,
    v_characters      |-> <<>>,
    storage_locations |-> <<[name |-> "A"], [name |-> "B"]>> ]

\* The possible JSON bodies of a GET: the matching rows in any order (the
\* requests that index the result carry no order clause).
RemoteFetch(d, table, q) ==
  IF table \in DOMAIN StaticRows THEN {StaticRows[table]}
  ELSE LET base == IF table \in DOMAIN ViewBase THEN ViewBase[table] ELSE table
       IN  Perms(Matching(d[base], q))

(* --------------------------- SupabaseClient ---------------------------- *)
\* a get that consults and fills the cache whatever use_cache says
get_caching(c, d, table, q, use_cache) ==
  LET cache_key == _cache_key(table, _hash_query(q)) IN
  IF CacheTruthy(c) /\ CacheHas(c, cache_key)
  THEN {[rows |-> c[cache_key], hit |-> TRUE, fetched |-> 0, cache |-> c]}
  ELSE {[rows |-> data, hit |-> FALSE, fetched |-> 1,
         cache |-> IF CacheTruthy(c) THEN CacheSet(c, cache_key, data) ELSE c]
        : data \in RemoteFetch(d, table, q)}


\* get: the set of possible outcomes [rows, hit, fetched, cache].
get(c, d, table, q, use_cache) ==
  LET cache_key == _cache_key(table, _hash_query(q)) IN
  IF use_cache /\ CacheTruthy(c) /\ CacheHas(c, cache_key)
  THEN {[rows |-> c[cache_key], hit |-> TRUE, fetched |-> 0, cache |-> c]}
  ELSE {[rows |-> data, hit |-> FALSE, fetched |-> 1,
         cache |-> IF use_cache /\ CacheTruthy(c)
                   THEN CacheSet(c, cache_key, data) ELSE c]
        : data \in RemoteFetch(d, table, q)}

\* an insert that replaces what the table held
insert_replacing(c, d, table, data) ==
  [db    |-> [d EXCEPT ![table] = {data}],
   cache |-> invalidate_related_caches(c, table)]

\* insert / update / delete: the world [db, cache] after a successful request.
insert(c, d, table, data) ==
  [db    |-> [d EXCEPT ![table] = @ \cup {data}],
   cache |-> invalidate_related_caches(c, table)]

\* update(table, data, {"id": "eq.<id>"}): data is a record of new fields.
update(c, d, table, data, id) ==
  [db    |-> [d EXCEPT ![table] =
                {IF r.id = id
                 THEN [f \in DOMAIN r |-> IF f \in DOMAIN data THEN data[f] ELSE r[f]]
                 ELSE r : r \in @}],
   cache |-> invalidate_related_caches(c, table)]

update_by_id(c, d, table, id, data) == update(c, d, table, data, id)

\* delete(table, {"id": "eq.<id>"})
delete(c, d, table, id) ==
  [db    |-> [d EXCEPT ![table] = {r \in @ : r.id # id}],
   cache |-> invalidate_related_caches(c, table)]

delete_by_id(c, d, table, id) == delete(c, d, table, id)

(* ------------------------------ helpers -------------------------------- *)
Idle(p) == pc[p] = "idle"

\* A new top-level call of process p.
Begin(p, label, c) ==
  /\ Idle(p)
  /\ calls < MaxCalls
  /\ calls' = calls + 1
  /\ pc' = [pc EXCEPT ![p] = label]
  /\ call' = [call EXCEPT ![p] = [c EXCEPT !.pre = [db |-> db, cache |-> cache]]]
  /\ result' = [result EXCEPT ![p] = "running"]
  /\ reqs' = [reqs EXCEPT ![p] = <<>>]
  /\ UNCHANGED <<db, nextId, cache>>

Goto(p, label) == pc' = [pc EXCEPT ![p] = label]

\* The call returns value; its arguments and locals stay readable in call[p]
\* until the process starts its next call.
Return(p, value) ==
  /\ pc' = [pc EXCEPT ![p] = "idle"]
  /\ result' = [result EXCEPT ![p] = value]
  /\ UNCHANGED call

\* One client operation as recorded in reqs: data is the row of an insert,
\* cleared the cache keys the operation's invalidation removed, sent the number
\* of remote requests it issued, ok whether it returned (FALSE: it raised).
GetEntry(table, q, uc, o) ==
  [op |-> "get", table |-> table, q |-> q, uc |-> uc, hit |-> o.hit,
   fetched |-> o.fetched, rows |-> o.rows, data |-> <<>>, cleared |-> {},
   sent |-> o.fetched, ok |-> TRUE]

WriteEntry(op, table, data, cleared) ==
  [op |-> op, table |-> table, q |-> <<>>, uc |-> FALSE, hit |-> FALSE,
   fetched |-> 0, rows |-> <<>>, data |-> data, cleared |-> cleared,
   sent |-> 1, ok |-> TRUE]

\* An operation whose request failed: response.raise_for_status() (or the
\* request itself) raised before any row was returned.
FailedEntry(op, table, q, cleared) ==
  [op |-> op, table |-> table, q |-> q, uc |-> (op = "get"), hit |-> FALSE,
   fetched |-> 0, rows |-> <<>>, data |-> <<>>, cleared |-> cleared,
   sent |-> 1, ok |-> FALSE]

\* A read made through SupabaseClient.get with outcome o.
ReadReq(p, table, q, uc, o) ==
  /\ cache' = o.cache
  /\ reqs' = [reqs EXCEPT ![p] = Append(@, GetEntry(table, q, uc, o))]

\* A write made through SupabaseClient with resulting world w.
WriteReq(p, op, table, data, w) ==
  /\ db' = w.db
  /\ cache' = w.cache
  /\ reqs' = [reqs EXCEPT ![p] =
                Append(@, WriteEntry(op, table, data, (DOMAIN cache) \ (DOMAIN w.cache)))]

InvKey(p) == <<call[p].loc, call[p].item>>

LedgerRow(id, loc, type, item, qty) ==
  [id |-> id, loc |-> loc, type |-> type, item |-> item, qty |-> qty]

(* ------------------------------ add_item ------------------------------- *)
Call_add_item(p, loc, item, qty) ==
  Begin(p, "ai_insert", [NoCall EXCEPT !.op = "add_item", !.loc = loc,
                                       !.item = item, !.qty = Some(qty)])

\* result = self.insert("inventory_current", item_data)
ai_insert(p) ==
  /\ pc[p] = "ai_insert"
  /\ LET item_data == [id |-> nextId, loc |-> call[p].loc, item |-> call[p].item,
                       qty |-> call[p].qty[1]]
     IN  WriteReq(p, "insert", "inventory_current", item_data,
                  insert(cache, db, "inventory_current", item_data))
  /\ nextId' = nextId + 1
  /\ Goto(p, "ai_ledger")
  /\ UNCHANGED <<call, result, calls>>

\* self.insert("inventory_ledger", ledger_data); return result[0]
ai_ledger(p) ==
  /\ pc[p] = "ai_ledger"
  /\ LET ledger_data == LedgerRow(nextId, call[p].loc, "add", call[p].item,
                                  call[p].qty[1])
     IN  WriteReq(p, "insert", "inventory_ledger", ledger_data,
                  insert(cache, db, "inventory_ledger", ledger_data))
  /\ nextId' = nextId + 1
  /\ Return(p, "row")
  /\ UNCHANGED calls

(* ----------------------------- remove_item ----------------------------- *)
Call_remove_item(p, loc, item, qty) ==
  Begin(p, "ri_read", [NoCall EXCEPT !.op = "remove_item", !.loc = loc,
                                     !.item = item, !.qty = qty])

\* items = self.get("inventory_current", filters=...); if not items: return None
ri_read(p) ==
  /\ pc[p] = "ri_read"
  /\ \E o \in get(cache, db, "inventory_current", InvKey(p), TRUE) :
       /\ ReadReq(p, "inventory_current", InvKey(p), TRUE, o)
       /\ IF o.rows = <<>>
          THEN Return(p, "none")
          ELSE /\ Goto(p, "ri_ledger")
               /\ call' = [call EXCEPT ![p].rows = o.rows,
                             ![p].xq = IF Truthy(call[p].qty) THEN call[p].qty[1]
                                       ELSE o.rows[1].qty]
               /\ UNCHANGED result
  /\ UNCHANGED <<db, nextId, calls>>

\* self.insert("inventory_ledger", ledger_data) with quantity remove_qty
ri_ledger(p) ==
  /\ pc[p] = "ri_ledger"
  /\ LET ledger_data == LedgerRow(nextId, call[p].loc, "remove", call[p].item,
                                  call[p].xq)
     IN  WriteReq(p, "insert", "inventory_ledger", ledger_data,
                  insert(cache, db, "inventory_ledger", ledger_data))
  /\ nextId' = nextId + 1
  /\ Goto(p, "ri_write")
  /\ UNCHANGED <<call, result, calls>>

\* delete the row when remove_qty >= current_qty, else reduce its quantity
ri_write(p) ==
  /\ pc[p] = "ri_write"
  /\ LET item == call[p].rows[1]
         current_qty == item.qty
         remove_qty == call[p].xq
     IN  IF remove_qty >= current_qty
         THEN /\ WriteReq(p, "delete", "inventory_current", <<>>,
                          delete(cache, db, "inventory_current", item.id))
              /\ Return(p, "deleted")
         ELSE /\ WriteReq(p, "update_by_id", "inventory_current", <<>>,
                          update_by_id(cache, db, "inventory_current", item.id,
                                       [qty |-> current_qty - remove_qty]))
              /\ Return(p, "row")
  /\ UNCHANGED <<nextId, calls>>

(* ------------------------- update_item_quantity ------------------------ *)
Call_update_item_quantity(p, loc, item, qty) ==
  Begin(p, "uq_read", [NoCall EXCEPT !.op = "update_item_quantity", !.loc = loc,
                                     !.item = item, !.qty = Some(qty)])

uq_read(p) ==
  /\ pc[p] = "uq_read"
  /\ \E o \in get(cache, db, "inventory_current", InvKey(p), TRUE) :
       /\ ReadReq(p, "inventory_current", InvKey(p), TRUE, o)
       /\ IF o.rows = <<>>
          THEN Return(p, "none")
          ELSE /\ Goto(p, "uq_ledger")
               /\ call' = [call EXCEPT ![p].rows = o.rows,
                             ![p].xq = call[p].qty[1] - o.rows[1].qty]
               /\ UNCHANGED result
  /\ UNCHANGED <<db, nextId, calls>>

\* ledger entry "add" if diff > 0 else "remove", quantity abs(diff)
uq_ledger(p) ==
  /\ pc[p] = "uq_ledger"
  /\ LET diff == call[p].xq
         ledger_data == LedgerRow(nextId, call[p].loc,
                                  IF diff > 0 THEN "add" ELSE "remove",
                                  call[p].item, Abs(diff))
     IN  WriteReq(p, "insert", "inventory_ledger", ledger_data,
                  insert(cache, db, "inventory_ledger", ledger_data))
  /\ nextId' = nextId + 1
  /\ Goto(p, "uq_write")
  /\ UNCHANGED <<call, result, calls>>

uq_write(p) ==
  /\ pc[p] = "uq_write"
  /\ WriteReq(p, "update_by_id", "inventory_current", <<>>,
              update_by_id(cache, db, "inventory_current", call[p].rows[1].id,
                           [qty |-> call[p].qty[1]]))
  /\ Return(p, "row")
  /\ UNCHANGED <<nextId, calls>>

(* ---------------------------- transfer_item ---------------------------- *)
\* a check that lets every quantity through
exceeds_never(transfer_qty, available) == FALSE
\* if transfer_qty > source_item.get("quantity", 1): return {"error": ...}
exceeds_available(transfer_qty, available) == transfer_qty > available

\* new_qty = dest_items[0]["quantity"] + transfer_qty
new_qty(held, transfer_qty) == held + transfer_qty

Call_transfer_item(p, from, to, item, qty) ==
  Begin(p, "ti_read", [NoCall EXCEPT !.op = "transfer_item", !.loc = from,
                                     !.to = to, !.item = item, !.qty = qty])

\* read the source row; the two precondition failures return an error dict
ti_read(p) ==
  /\ pc[p] = "ti_read"
  /\ \E o \in get(cache, db, "inventory_current", InvKey(p), TRUE) :
       /\ ReadReq(p, "inventory_current", InvKey(p), TRUE, o)
       /\ IF o.rows = <<>>
          THEN Return(p, "error")
          ELSE LET source_item == o.rows[1]
                   transfer_qty == IF Truthy(call[p].qty) THEN call[p].qty[1]
                                   ELSE source_item.qty
               IN  IF exceeds_available(transfer_qty, source_item.qty)
                   THEN Return(p, "error")
                   ELSE /\ Goto(p, "ti_out")
                        /\ call' = [call EXCEPT ![p].rows = o.rows,
                                                ![p].xq = transfer_qty]
                        /\ UNCHANGED result
  /\ UNCHANGED <<db, nextId, calls>>

ti_out(p) ==
  /\ pc[p] = "ti_out"
  /\ LET transfer_out == LedgerRow(nextId, call[p].loc, "transfer_out",
                                   call[p].item, call[p].xq)
     IN  WriteReq(p, "insert", "inventory_ledger", transfer_out,
                  insert(cache, db, "inventory_ledger", transfer_out))
  /\ nextId' = nextId + 1
  /\ Goto(p, "ti_in")
  /\ UNCHANGED <<call, result, calls>>

ti_in(p) ==
  /\ pc[p] = "ti_in"
  /\ LET transfer_in == LedgerRow(nextId, call[p].to, "transfer_in",
                                  call[p].item, call[p].xq)
     IN  WriteReq(p, "insert", "inventory_ledger", transfer_in,
                  insert(cache, db, "inventory_ledger", transfer_in))
  /\ nextId' = nextId + 1
  /\ Goto(p, "ti_src")
  /\ UNCHANGED <<call, result, calls>>

\* update source inventory: delete at remaining <= 0, else store remaining
ti_src(p) ==
  /\ pc[p] = "ti_src"
  /\ LET source_item == call[p].rows[1]
         remaining == source_item.qty - call[p].xq
     IN  IF remaining <= 0
         THEN WriteReq(p, "delete_by_id", "inventory_current", <<>>,
                       delete_by_id(cache, db, "inventory_current", source_item.id))
         ELSE WriteReq(p, "update_by_id", "inventory_current", <<>>,
                       update_by_id(cache, db, "inventory_current", source_item.id,
                                    [qty |-> remaining]))
  /\ Goto(p, "ti_dread")
  /\ UNCHANGED <<nextId, call, result, calls>>

ti_dread(p) ==
  /\ pc[p] = "ti_dread"
  /\ LET q == <<call[p].to, call[p].item>> IN
     \E o \in get(cache, db, "inventory_current", q, TRUE) :
       /\ ReadReq(p, "inventory_current", q, TRUE, o)
       /\ call' = [call EXCEPT ![p].drows = o.rows]
  /\ Goto(p, "ti_dst")
  /\ UNCHANGED <<db, nextId, result, calls>>

\* update or create destination inventory
ti_dst(p) ==
  /\ pc[p] = "ti_dst"
  /\ LET dest_items == call[p].drows IN
     IF dest_items # <<>>
     THEN /\ WriteReq(p, "update_by_id", "inventory_current", <<>>,
                      update_by_id(cache, db, "inventory_current", dest_items[1].id,
                                   [qty |-> new_qty(dest_items[1].qty, call[p].xq)]))
          /\ UNCHANGED nextId
     ELSE /\ LET new_item == [id |-> nextId, loc |-> call[p].to,
                              item |-> call[p].item, qty |-> call[p].xq]
             IN  WriteReq(p, "insert", "inventory_current", new_item,
                          insert(cache, db, "inventory_current", new_item))
          /\ nextId' = nextId + 1
  /\ Return(p, "success")
  /\ UNCHANGED calls

(* ------------------------------ currency ------------------------------- *)
\* a credit that forgets the balance it was added to
credit_forgets(balance, amount) == amount
\* "copper": current[0].get("copper", 0) + copper, ...
credit(balance, amount) == balance + amount

CurrencyLedgerRow(id, loc, type, amt) ==
  [id |-> id, loc |-> loc, type |-> type, amt |-> amt]

\* transfer_currency runs remove_currency at call.loc, then add_currency at
\* call.to, in the same process.
InTransfer(p) == call[p].op = "transfer_currency"
AddLoc(p) == IF InTransfer(p) THEN call[p].to ELSE call[p].loc

Call_add_currency(p, loc, amt) ==
  Begin(p, "ac_read", [NoCall EXCEPT !.op = "add_currency", !.loc = loc,
                                     !.amt = amt])

ac_read(p) ==
  /\ pc[p] = "ac_read"
  /\ \E o \in get(cache, db, "currency_current", <<AddLoc(p)>>, TRUE) :
       /\ ReadReq(p, "currency_current", <<AddLoc(p)>>, TRUE, o)
       /\ call' = [call EXCEPT ![p].rows = o.rows]
  /\ Goto(p, "ac_write")
  /\ UNCHANGED <<db, nextId, result, calls>>

\* update the existing balance or create a new entry
ac_write(p) ==
  /\ pc[p] = "ac_write"
  /\ LET current == call[p].rows IN
     IF current # <<>>
     THEN /\ LET new_balance == [d \in Denom |-> credit(current[1].bal[d], call[p].amt[d])]
             IN  WriteReq(p, "update_by_id", "currency_current", <<>>,
                          update_by_id(cache, db, "currency_current", current[1].id,
                                       [bal |-> new_balance]))
          /\ UNCHANGED nextId
     ELSE /\ LET new_balance == [id |-> nextId, loc |-> AddLoc(p),
                                 bal |-> call[p].amt]
             IN  WriteReq(p, "insert", "currency_current", new_balance,
                          insert(cache, db, "currency_current", new_balance))
          /\ nextId' = nextId + 1
  /\ Goto(p, "ac_ledger")
  /\ UNCHANGED <<call, result, calls>>

ac_ledger(p) ==
  /\ pc[p] = "ac_ledger"
  /\ LET ledger_data == CurrencyLedgerRow(nextId, AddLoc(p), "add", call[p].amt)
     IN  WriteReq(p, "insert", "currency_ledger", ledger_data,
                  insert(cache, db, "currency_ledger", ledger_data))
  /\ nextId' = nextId + 1
  /\ Goto(p, "ac_ret")
  /\ UNCHANGED <<call, result, calls>>

\* return self.get("currency_current", ...)[0]
ac_ret(p) ==
  /\ pc[p] = "ac_ret"
  /\ \E o \in get(cache, db, "currency_current", <<AddLoc(p)>>, TRUE) :
       /\ ReadReq(p, "currency_current", <<AddLoc(p)>>, TRUE, o)
       /\ Return(p, IF o.rows = <<>> THEN "raised"
                    ELSE IF InTransfer(p) THEN "success" ELSE "row")
  /\ UNCHANGED <<db, nextId, calls>>

Call_remove_currency(p, loc, amt) ==
  Begin(p, "rc_read", [NoCall EXCEPT !.op = "remove_currency", !.loc = loc,
                                     !.amt = amt])

\* if not current: return {"error": ...}; transfer_currency ignores the value
rc_read(p) ==
  /\ pc[p] = "rc_read"
  /\ \E o \in get(cache, db, "currency_current", <<call[p].loc>>, TRUE) :
       /\ ReadReq(p, "currency_current", <<call[p].loc>>, TRUE, o)
       /\ IF o.rows = <<>>
          THEN IF InTransfer(p)
               THEN Goto(p, "ac_read") /\ UNCHANGED <<call, result>>
               ELSE Return(p, "error")
          ELSE /\ Goto(p, "rc_write")
               /\ call' = [call EXCEPT ![p].rows = o.rows]
               /\ UNCHANGED result
  /\ UNCHANGED <<db, nextId, calls>>

\* calculate new balance (don't go negative) and store it
rc_write(p) ==
  /\ pc[p] = "rc_write"
  /\ LET current == call[p].rows
         new_balance == [d \in Denom |-> Max(0, current[1].bal[d] - call[p].amt[d])]
     IN  WriteReq(p, "update_by_id", "currency_current", <<>>,
                  update_by_id(cache, db, "currency_current", current[1].id,
                               [bal |-> new_balance]))
  /\ Goto(p, "rc_ledger")
  /\ UNCHANGED <<nextId, call, result, calls>>

rc_ledger(p) ==
  /\ pc[p] = "rc_ledger"
  /\ LET ledger_data == CurrencyLedgerRow(nextId, call[p].loc, "remove", call[p].amt)
     IN  WriteReq(p, "insert", "currency_ledger", ledger_data,
                  insert(cache, db, "currency_ledger", ledger_data))
  /\ nextId' = nextId + 1
  /\ Goto(p, "rc_ret")
  /\ UNCHANGED <<call, result, calls>>

rc_ret(p) ==
  /\ pc[p] = "rc_ret"
  /\ \E o \in get(cache, db, "currency_current", <<call[p].loc>>, TRUE) :
       /\ ReadReq(p, "currency_current", <<call[p].loc>>, TRUE, o)
       /\ IF o.rows = <<>>
          THEN Return(p, "raised")
          ELSE IF InTransfer(p)
               THEN Goto(p, "ac_read") /\ call' = [call EXCEPT ![p].rows = <<>>]
                    /\ UNCHANGED result
               ELSE Return(p, "row")
  /\ UNCHANGED <<db, nextId, calls>>

Call_transfer_currency(p, from, to, amt) ==
  Begin(p, "rc_read", [NoCall EXCEPT !.op = "transfer_currency", !.loc = from,
                                     !.to = to, !.amt = amt])

(* ------------------------------ queries -------------------------------- *)
\* SupabaseClient.get_inventory(location_id=loc): one cached read of v_inventory
get_inventory(p, loc) ==
  /\ Idle(p) /\ calls < MaxCalls /\ calls' = calls + 1
  /\ call' = [call EXCEPT ![p] = [NoCall EXCEPT !.op = "get_inventory", !.loc = loc]]
  /\ \E o \in get(cache, db, "v_inventory", <<loc>>, TRUE) :
       /\ cache' = o.cache
       /\ reqs' = [reqs EXCEPT ![p] = <<GetEntry("v_inventory", <<loc>>, TRUE, o)>>]
  /\ result' = [result EXCEPT ![p] = "rows"]
  /\ UNCHANGED <<db, nextId, pc>>

\* SupabaseClient.get_currency(location_id=loc): v_currency_by_location
get_currency(p, loc) ==
  /\ Idle(p) /\ calls < MaxCalls /\ calls' = calls + 1
  /\ call' = [call EXCEPT ![p] = [NoCall EXCEPT !.op = "get_currency", !.loc = loc]]
  /\ \E o \in get(cache, db, "v_currency_by_location", <<loc>>, TRUE) :
       /\ cache' = o.cache
       /\ reqs' = [reqs EXCEPT ![p] =
                     <<GetEntry("v_currency_by_location", <<loc>>, TRUE, o)>>]
  /\ result' = [result EXCEPT ![p] = "rows"]
  /\ UNCHANGED <<db, nextId, pc>>

\* tools._get_category_items: the D&D reference tools store their own entries
\* in the same APICache instance.
_get_category_items(p) ==
  /\ Idle(p) /\ calls < MaxCalls /\ calls' = calls + 1
  /\ cache' = IF CacheHas(cache, DndKey) THEN cache
              ELSE CacheSet(cache, DndKey, <<"equipment">>)
  /\ result' = [result EXCEPT ![p] = "dnd"]
  /\ UNCHANGED <<db, nextId, pc, call, reqs>>

\* SupabaseClient.get called directly on a view that no wrapper method reads:
\* the transaction history of the inventory.
get_view(p, table, q) ==
  /\ Idle(p) /\ calls < MaxCalls /\ calls' = calls + 1
  /\ call' = [call EXCEPT ![p] = [NoCall EXCEPT !.op = "get"]]
  /\ \E o \in get(cache, db, table, q, TRUE) :
       /\ cache' = o.cache
       /\ reqs' = [reqs EXCEPT ![p] = <<GetEntry(table, q, TRUE, o)>>]
  /\ result' = [result EXCEPT ![p] = "rows"]
  /\ UNCHANGED <<db, nextId, pc>>

(* --------------------- get_inventory, request by request --------------- *)
\* Under concurrent callers the two halves of SupabaseClient.get, the cache
\* check with the GET and the cache.set that follows the response, are
\* separate steps: another caller's request may be served in between.
Call_get_inventory(p, loc) ==
  Begin(p, "gi_fetch", [NoCall EXCEPT !.op = "get_inventory", !.loc = loc])

\* cache check; on a miss requests.get, whose rows are held in data
gi_fetch(p) ==
  /\ pc[p] = "gi_fetch"
  /\ LET q == <<call[p].loc>>
         cache_key == _cache_key("v_inventory", _hash_query(q))
     IN  IF CacheTruthy(cache) /\ CacheHas(cache, cache_key)
         THEN /\ reqs' = [reqs EXCEPT ![p] =
                            Append(@, GetEntry("v_inventory", q, TRUE,
                                               [rows |-> cache[cache_key],
                                                hit |-> TRUE, fetched |-> 0]))]
              /\ Return(p, "rows")
         ELSE /\ \E data \in RemoteFetch(db, "v_inventory", q) :
                   call' = [call EXCEPT ![p].rows = data]
              /\ Goto(p, "gi_store")
              /\ UNCHANGED <<result, reqs>>
  /\ UNCHANGED <<db, nextId, cache, calls>>

\* if use_cache and self.cache: self.cache.set(cache_key, data); return data
gi_store(p) ==
  /\ pc[p] = "gi_store"
  /\ LET q == <<call[p].loc>>
         cache_key == _cache_key("v_inventory", _hash_query(q))
         data == call[p].rows
     IN  /\ cache' = IF CacheTruthy(cache) THEN CacheSet(cache, cache_key, data)
                     ELSE cache
         /\ reqs' = [reqs EXCEPT ![p] =
                       Append(@, GetEntry("v_inventory", q, TRUE,
                                          [rows |-> data, hit |-> FALSE,
                                           fetched |-> 1]))]
  /\ Return(p, "rows")
  /\ UNCHANGED <<db, nextId, calls>>


(* ------------------------------ utilities ------------------------------ *)
\* rows come back in the order of the request's order clause
LocRank == [A |-> 1, B |-> 2]
InOrder(rows, order) ==
  \A i \in DOMAIN rows : \A j \in DOMAIN rows :
    i < j =>
      CASE order = "created_at.desc" -> rows[i].id > rows[j].id
        [] order = "location_name,item_name" ->
             LocRank[rows[i].loc] <= LocRank[rows[j].loc]
        [] OTHER -> TRUE

\* The reads of create_inventory_snapshot, in order: table and order clause.
SnapshotReads ==
  << <<"parties", "">>, <<"v_characters", "">>, <<"storage_locations", "name">>,
     <<"v_inventory", "location_name,item_name">>,
     <<"v_currency_by_location", "">>, <<"v_total_wealth", "">>,
     <<"inventory_ledger", "created_at.desc">>,
     <<"currency_ledger", "created_at.desc">> >>

\* self.get(table, order=..., use_cache=False) for each read in turn: the
\* possible outcomes [cache, entries] of the whole sequence.
RECURSIVE ReadAll(_, _, _)
ReadAll(c, d, reads) ==
  IF reads = <<>> THEN {[cache |-> c, entries |-> <<>>]}
  ELSE LET table == Head(reads)[1]
           order == Head(reads)[2]
       IN  UNION {{[cache |-> r.cache,
                    entries |-> <<GetEntry(table, <<>>, FALSE, o)>> \o r.entries]
                   : r \in ReadAll(o.cache, d, Tail(reads))}
                  : o \in {x \in get(c, d, table, <<>>, FALSE) : InOrder(x.rows, order)}}

\* SupabaseClient.health_check: one uncached read of parties
health_check(p) ==
  /\ Idle(p) /\ calls < MaxCalls /\ calls' = calls + 1
  /\ call' = [call EXCEPT ![p] = [NoCall EXCEPT !.op = "health_check",
                                                !.pre = [db |-> db, cache |-> cache]]]
  /\ \E r \in ReadAll(cache, db, << <<"parties", "">> >>) :
       /\ cache' = r.cache
       /\ reqs' = [reqs EXCEPT ![p] = r.entries]
  /\ result' = [result EXCEPT ![p] = "healthy"]
  /\ UNCHANGED <<db, nextId, pc>>

\* SupabaseClient.create_inventory_snapshot: eight uncached reads
create_inventory_snapshot(p) ==
  /\ Idle(p) /\ calls < MaxCalls /\ calls' = calls + 1
  /\ call' = [call EXCEPT ![p] = [NoCall EXCEPT !.op = "create_inventory_snapshot",
                                                !.pre = [db |-> db, cache |-> cache]]]
  /\ \E r \in ReadAll(cache, db, SnapshotReads) :
       /\ cache' = r.cache
       /\ reqs' = [reqs EXCEPT ![p] = r.entries]
  /\ result' = [result EXCEPT ![p] = "snapshot"]
  /\ UNCHANGED <<db, nextId, pc>>


(* ------------------------- failing remote requests --------------------- *)
\* The client operation the step at pc[p] is about to make.
StepRequest(p) ==
  LET c == call[p]
      R(op, table, q) == [op |-> op, table |-> table, q |-> q]
  IN  CASE pc[p] = "ai_insert" -> R("insert", "inventory_current", <<>>)
        [] pc[p] = "ai_ledger" -> R("insert", "inventory_ledger", <<>>)
        [] pc[p] = "ri_read"   -> R("get", "inventory_current", InvKey(p))
        [] pc[p] = "ri_ledger" -> R("insert", "inventory_ledger", <<>>)
        [] pc[p] = "ri_write"  -> R(IF c.xq >= c.rows[1].qty THEN "delete"
                                    ELSE "update_by_id", "inventory_current", <<>>)
        [] pc[p] = "uq_read"   -> R("get", "inventory_current", InvKey(p))
        [] pc[p] = "uq_ledger" -> R("insert", "inventory_ledger", <<>>)
        [] pc[p] = "uq_write"  -> R("update_by_id", "inventory_current", <<>>)
        [] pc[p] = "ti_read"   -> R("get", "inventory_current", InvKey(p))
        [] pc[p] = "ti_out"    -> R("insert", "inventory_ledger", <<>>)
        [] pc[p] = "ti_in"     -> R("insert", "inventory_ledger", <<>>)
        [] pc[p] = "ti_src"    -> R(IF c.rows[1].qty - c.xq <= 0 THEN "delete_by_id"
                                    ELSE "update_by_id", "inventory_current", <<>>)
        [] pc[p] = "ti_dread"  -> R("get", "inventory_current", <<c.to, c.item>>)
        [] pc[p] = "ti_dst"    -> R(IF c.drows # <<>> THEN "update_by_id" ELSE "insert",
                                    "inventory_current", <<>>)
        [] pc[p] = "ac_read"   -> R("get", "currency_current", <<AddLoc(p)>>)
        [] pc[p] = "ac_write"  -> R(IF c.rows # <<>> THEN "update_by_id" ELSE "insert",
                                    "currency_current", <<>>)
        [] pc[p] = "ac_ledger" -> R("insert", "currency_ledger", <<>>)
        [] pc[p] = "ac_ret"    -> R("get", "currency_current", <<AddLoc(p)>>)
        [] pc[p] = "rc_read"   -> R("get", "currency_current", <<c.loc>>)
        [] pc[p] = "rc_write"  -> R("update_by_id", "currency_current", <<>>)
        [] pc[p] = "rc_ledger" -> R("insert", "currency_ledger", <<>>)
        [] pc[p] = "rc_ret"    -> R("get", "currency_current", <<c.loc>>)

\* a failure that undoes what the call has written so far
FailStep_rollback(p) ==
  /\ ~Idle(p)
  /\ LET r == StepRequest(p) IN
     /\ r.op = "get" =>
          ~(CacheTruthy(cache) /\ CacheHas(cache, _cache_key(r.table, _hash_query(r.q))))
     /\ reqs' = [reqs EXCEPT ![p] = Append(@, FailedEntry(r.op, r.table, r.q, {}))]
  /\ db' = call[p].pre.db
  /\ Return(p, "raised")
  /\ UNCHANGED <<nextId, cache, calls>>

\* a failed write that has already dropped the cache entries
FailStep_invalidates(p) ==
  /\ ~Idle(p)
  /\ LET r == StepRequest(p) IN
     /\ r.op = "get" =>
          ~(CacheTruthy(cache) /\ CacheHas(cache, _cache_key(r.table, _hash_query(r.q))))
     /\ cache' = IF r.op = "get" THEN cache ELSE invalidate_related_caches(cache, r.table)
     /\ reqs' = [reqs EXCEPT ![p] = Append(@, FailedEntry(r.op, r.table, r.q, {}))]
  /\ Return(p, "raised")
  /\ UNCHANGED <<db, nextId, calls>>

\* The request of the step is sent and fails (non-success status, network
\* error, timeout; the store did not apply it): requests / raise_for_status
\* raise, the client returns nothing and touches no cache entry, and the
\* mutator, which has no try/except, passes the exception to its caller.
FailStep(p) ==
  /\ ~Idle(p)
  /\ LET r == StepRequest(p) IN
     /\ r.op = "get" =>
          ~(CacheTruthy(cache) /\ CacheHas(cache, _cache_key(r.table, _hash_query(r.q))))
     /\ reqs' = [reqs EXCEPT ![p] = Append(@, FailedEntry(r.op, r.table, r.q, {}))]
  /\ Return(p, "raised")
  /\ UNCHANGED <<db, nextId, cache, calls>>

\* The url of the i-th request of the call of p: the table, followed by the
\* query string of a get or by the id filter of an update or delete; an
\* insert posts to the table's url alone.
Url(p, i) ==
  LET e == reqs[p][i]
      c == call[p]
      row == IF c.op = "transfer_item" /\ i = 6 THEN c.drows[1] ELSE c.rows[1]
  IN  [table |-> e.table,
       query |-> IF e.op = "get" THEN e.q
                 ELSE IF e.op = "insert" THEN <<>>
                 ELSE <<row.id>>]

\* str(e) of the exception a failed request raises, which the tool returns as
\* {"error": str(e)}: raise_for_status names the status and the url.
str_e(p, i) == [status |-> "error", url |-> Url(p, i)]


(* --------------------------- specification ----------------------------- *)
Init ==
  /\ db = EmptyDb
  /\ nextId = 1
  /\ cache = EmptyCache
  /\ pc = [p \in Procs |-> "idle"]
  /\ call = [p \in Procs |-> NoCall]
  /\ result = [p \in Procs |-> "none"]
  /\ reqs = [p \in Procs |-> <<>>]
  /\ calls = 0

InventoryCalls(p) ==
  \/ \E loc \in Locs, item \in Items, qty \in QtyArgs : Call_add_item(p, loc, item, qty)
  \/ \E loc \in Locs, item \in Items, qty \in OptQtyArgs :
       Call_remove_item(p, loc, item, qty)
  \/ \E loc \in Locs, item \in Items, qty \in QtyArgs :
       Call_update_item_quantity(p, loc, item, qty)
  \/ \E from \in Locs : \E to \in Locs \ {from}, item \in Items, qty \in OptQtyArgs :
       Call_transfer_item(p, from, to, item, qty)

InventorySteps(p) ==
  \/ ai_insert(p) \/ ai_ledger(p)
  \/ ri_read(p) \/ ri_ledger(p) \/ ri_write(p)
  \/ uq_read(p) \/ uq_ledger(p) \/ uq_write(p)
  \/ ti_read(p) \/ ti_out(p) \/ ti_in(p) \/ ti_src(p) \/ ti_dread(p) \/ ti_dst(p)

CurrencyCalls(p) ==
  \/ \E loc \in Locs, amt \in AmtArgs : Call_add_currency(p, loc, amt)
  \/ \E loc \in Locs, amt \in AmtArgs : Call_remove_currency(p, loc, amt)
  \/ \E from \in Locs : \E to \in Locs \ {from}, amt \in AmtArgs :
       Call_transfer_currency(p, from, to, amt)

CurrencySteps(p) ==
  \/ ac_read(p) \/ ac_write(p) \/ ac_ledger(p) \/ ac_ret(p)
  \/ rc_read(p) \/ rc_write(p) \/ rc_ledger(p) \/ rc_ret(p)

Queries(p) ==
  \/ \E loc \in Locs : get_inventory(p, loc)
  \/ \E loc \in Locs : get_currency(p, loc)
  \/ _get_category_items(p)
  \/ get_view(p, "v_inventory_history", <<>>)

\* One client process: calls run one after another, each to completion.
Next ==
  \/ InventoryCalls(1) \/ InventorySteps(1)
  \/ CurrencyCalls(1) \/ CurrencySteps(1)
  \/ Queries(1)

Spec == Init /\ [][Next]_vars

\* The inventory handlers alone, and the currency handlers alone.
NextInv == InventoryCalls(1) \/ InventorySteps(1) \/ Queries(1)
SpecInv == Init /\ [][NextInv]_vars

NextCur == CurrencyCalls(1) \/ CurrencySteps(1) \/ Queries(1)
SpecCur == Init /\ [][NextCur]_vars

\* The inventory handlers together with the two utilities that read past
\* the cache.
Utilities(p) == health_check(p) \/ create_inventory_snapshot(p)
NextUtil == InventoryCalls(1) \/ InventorySteps(1) \/ Queries(1) \/ Utilities(1)
SpecUtil == Init /\ [][NextUtil]_vars


\* The inventory handlers with remote requests that may fail.
NextInvF == NextInv \/ FailStep(1)
SpecInvF == Init /\ [][NextInvF]_vars

\* Two callers served concurrently, each making one addCurrency or
\* removeCurrency call; the two calls interleave request by request.  The
\* store starts empty or with the balance row an earlier addCurrency left.
InitConc ==
  /\ \E loc \in Locs, amt \in AmtArgs :
       db \in {EmptyDb,
               [EmptyDb EXCEPT !["currency_current"] =
                  {[id |-> 1, loc |-> loc, bal |-> amt]},
                               !["currency_ledger"] =
                  {CurrencyLedgerRow(2, loc, "add", amt)}]}
  /\ nextId = 3
  /\ cache = EmptyCache
  /\ pc = [p \in Procs |-> "idle"]
  /\ call = [p \in Procs |-> NoCall]
  /\ result = [p \in Procs |-> "none"]
  /\ reqs = [p \in Procs |-> <<>>]
  /\ calls = 0

ConcCalls(p) ==
  /\ result[p] = "none"
  /\ \/ \E loc \in Locs, amt \in AmtArgs : Call_add_currency(p, loc, amt)
     \/ \E loc \in Locs, amt \in AmtArgs : Call_remove_currency(p, loc, amt)

NextConc == \E p \in Procs : ConcCalls(p) \/ CurrencySteps(p)
SpecConc == InitConc /\ [][NextConc]_vars

\* Two callers served concurrently: reads of the inventory view, request by
\* request, beside addItem and removeItem.  The cache holds the entry of a
\* reference lookup made before, so it is in use.
InitRace ==
  /\ db = EmptyDb
  /\ nextId = 1
  /\ cache = CacheSet(EmptyCache, DndKey, <<"equipment">>)
  /\ pc = [p \in Procs |-> "idle"]
  /\ call = [p \in Procs |-> NoCall]
  /\ result = [p \in Procs |-> "none"]
  /\ reqs = [p \in Procs |-> <<>>]
  /\ calls = 0

RaceCalls(p) ==
  \/ \E loc \in Locs : Call_get_inventory(p, loc)
  \/ \E loc \in Locs, item \in Items, qty \in PosQtyArgs :
       Call_add_item(p, loc, item, qty)
  \/ \E loc \in Locs, item \in Items : Call_remove_item(p, loc, item, None)

RaceSteps(p) ==
  \/ gi_fetch(p) \/ gi_store(p)
  \/ ai_insert(p) \/ ai_ledger(p)
  \/ ri_read(p) \/ ri_ledger(p) \/ ri_write(p)

NextRace == \E p \in Procs : RaceCalls(p) \/ RaceSteps(p)
SpecRace == InitRace /\ [][NextRace]_vars


\* Only addItem, removeItem and transferItem, one after another, adding
\* positive quantities.
ItemCalls(p) ==
  \/ \E loc \in Locs, item \in Items, qty \in PosQtyArgs :
       Call_add_item(p, loc, item, qty)
  \/ \E loc \in Locs, item \in Items, qty \in OptQtyArgs :
       Call_remove_item(p, loc, item, qty)
  \/ \E from \in Locs : \E to \in Locs \ {from}, item \in Items, qty \in OptQtyArgs :
       Call_transfer_item(p, from, to, item, qty)

ItemSteps(p) ==
  \/ ai_insert(p) \/ ai_ledger(p)
  \/ ri_read(p) \/ ri_ledger(p) \/ ri_write(p)
  \/ ti_read(p) \/ ti_out(p) \/ ti_in(p) \/ ti_src(p) \/ ti_dread(p) \/ ti_dst(p)

NextItems == ItemCalls(1) \/ ItemSteps(1) \/ Queries(1)
SpecItems == Init /\ [][NextItems]_vars

(* --------------------------- the cache store alone --------------------- *)
\* Keys, values and prefixes of the cache store's own tests, split at "_".
StoreKeys ==
  {<<"campaign", "v", "characters", "abc123">>,
   <<"campaign", "v", "characters", "def456">>,
   <<"campaign", "v", "inventory", "abc123">>,
   <<"campaign", "v", "inventory", "history", "abc123">>,
   <<"dnd5e", "monsters", "dragon">>}
StoreValues == {"Nico", "Olaf"}
StorePrefixes ==
  {<<>>, <<"campaign">>, <<"campaign", "v", "characters">>,
   <<"campaign", "v", "inventory">>, <<"nonexistent", "prefix">>,
   <<"dnd5e", "monsters", "dragon">>}

\* One operation on the store as recorded in reqs[1]: before is the store
\* the operation found, count what clear_prefix returned.
StoreEntry(op, key, before, count) ==
  [op |-> op, key |-> key, before |-> before, count |-> count]

\* cache.set(key, value)
APICache_set(key, value) ==
  /\ cache' = CacheSet(cache, key, value)
  /\ reqs' = [reqs EXCEPT ![1] = <<StoreEntry("set", key, cache, 0)>>]
  /\ UNCHANGED <<db, nextId, pc, call, result, calls>>

\* cleared = cache.clear_prefix(prefix)
APICache_clear_prefix(prefix) ==
  /\ cache' = clear_prefix(cache, prefix)
  /\ reqs' = [reqs EXCEPT ![1] =
                <<StoreEntry("clear_prefix", prefix, cache,
                             clear_prefix_count(cache, prefix))>>]
  /\ UNCHANGED <<db, nextId, pc, call, result, calls>>

NextCache ==
  \/ \E key \in StoreKeys, value \in StoreValues : APICache_set(key, value)
  \/ \E prefix \in StorePrefixes : APICache_clear_prefix(prefix)
SpecCache == Init /\ [][NextCache]_vars

(* ----------------------- the persistent cache store -------------------- *)
\* APICache(ttl_hours, persistent=True, cache_dir): in this specification the
\* variable cache holds the whole store,
\*   mem   : the in-memory map, key -> [value, createdAt]
\*   index : the index file of the directory, key -> createdAt
\*   files : the value files of the directory, key -> value
\*   now   : the clock, in hours
\* and reqs[1] holds the last operation on it.
MaxTime  == 3        \* last hour of the clock
TtlHours == 2        \* ttl of the store, in hours

DirKeys ==
  {<<"campaign", "v", "characters", "abc123">>,
   <<"campaign", "v", "characters", "def456">>,
   <<"campaign", "v", "inventory", "abc123">>}
Absent == "absent"

EmptyStore ==
  [mem |-> EmptyCache, index |-> EmptyCache, files |-> EmptyCache, now |-> 0]

Without(f, keys) == [x \in (DOMAIN f) \ keys |-> f[x]]

\* an entry is absent once ttl has elapsed since it was set
Expired_late(s, k) == s.now - s.mem[k].createdAt > TtlHours
Expired(s, k) == s.now - s.mem[k].createdAt >= TtlHours

\* removal of keys from memory, value files and index
Evict_memory(s, keys) == [s EXCEPT !.mem = Without(s.mem, keys)]
Evict(s, keys) ==
  [s EXCEPT !.mem = Without(s.mem, keys),
            !.index = Without(s.index, keys),
            !.files = Without(s.files, keys)]

\* set: overwrite in memory, on disk and in the index, with a fresh timestamp
Store_keep(s, k, v) ==
  IF k \in DOMAIN s.mem THEN s
  ELSE [s EXCEPT !.mem = CacheSet(s.mem, k, [value |-> v, createdAt |-> s.now]),
                 !.index = CacheSet(s.index, k, s.now),
                 !.files = CacheSet(s.files, k, v)]
Store(s, k, v) ==
  [s EXCEPT !.mem = CacheSet(s.mem, k, [value |-> v, createdAt |-> s.now]),
            !.index = CacheSet(s.index, k, s.now),
            !.files = CacheSet(s.files, k, v)]

\* get: the value, or absent for an unknown or expired key
Lookup(s, k) ==
  IF k \in DOMAIN s.mem /\ ~Expired(s, k) THEN s.mem[k].value ELSE Absent

\* construction on an existing directory: the index is reloaded and the
\* stored values accepted; an index line without its file is a miss
Load_nothing(s) == [s EXCEPT !.mem = EmptyCache]
Load(s) ==
  [s EXCEPT !.mem = [k \in (DOMAIN s.index) \cap (DOMAIN s.files) |->
                       [value |-> s.files[k], createdAt |-> s.index[k]]]]

DirEntry(op, key, before, ret) ==
  [op |-> op, key |-> key, before |-> before, ret |-> ret]
Logged(e) ==
  /\ reqs' = [reqs EXCEPT ![1] = <<e>>]
  /\ UNCHANGED <<db, nextId, pc, call, result, calls>>

\* cache.set(key, value)
Persistent_set(key, value) ==
  /\ cache' = Store(cache, key, value)
  /\ Logged(DirEntry("set", key, cache, value))

\* cache.get(key); an expired key is evicted as a side effect
Persistent_get(key) ==
  /\ cache' = IF key \in DOMAIN cache.mem /\ Expired(cache, key)
              THEN Evict(cache, {key}) ELSE cache
  /\ Logged(DirEntry("get", key, cache, Lookup(cache, key)))

\* cache.clear_prefix(prefix)
Persistent_clear_prefix(prefix) ==
  /\ cache' = Evict(cache, {k \in DOMAIN cache.mem : IsPrefix(prefix, k)})
  /\ Logged(DirEntry("clear_prefix", prefix, cache,
                     clear_prefix_count(cache.mem, prefix)))

\* cache.clear()
Persistent_clear ==
  /\ cache' = Evict(cache, DOMAIN cache.mem)
  /\ Logged(DirEntry("clear", <<>>, cache, 0))

\* a fresh APICache on the same directory replaces the instance
Persistent_construct ==
  /\ cache' = Load(cache)
  /\ Logged(DirEntry("construct", <<>>, cache, 0))

\* an hour passes
Tick ==
  /\ cache.now < MaxTime
  /\ cache' = [cache EXCEPT !.now = @ + 1]
  /\ UNCHANGED <<db, nextId, pc, call, result, reqs, calls>>

InitDir ==
  /\ db = EmptyDb
  /\ nextId = 1
  /\ cache = EmptyStore
  /\ pc = [p \in Procs |-> "idle"]
  /\ call = [p \in Procs |-> NoCall]
  /\ result = [p \in Procs |-> "none"]
  /\ reqs = [p \in Procs |-> <<>>]
  /\ calls = 0

NextDir ==
  \/ \E key \in DirKeys, value \in StoreValues : Persistent_set(key, value)
  \/ \E key \in DirKeys : Persistent_get(key)
  \/ \E prefix \in StorePrefixes : Persistent_clear_prefix(prefix)
  \/ Persistent_clear
  \/ Persistent_construct
  \/ Tick
SpecDir == InitDir /\ [][NextDir]_vars

(* ============================== properties ============================= *)
Mutators == {"add_item", "remove_item", "transfer_item",
             "add_currency", "remove_currency", "transfer_currency"}
CurrentTables == {"inventory_current", "currency_current"}
LedgerTables == {"inventory_ledger", "currency_ledger"}
WriteOps == {"insert", "update", "delete", "update_by_id", "delete_by_id"}

Range(f) == {f[i] : i \in DOMAIN f}

RECURSIVE SumQty(_)
SumQty(S) == IF S = {} THEN 0
             ELSE LET r == CHOOSE x \in S : TRUE IN r.qty + SumQty(S \ {r})

\* current-state quantity of an inventory key: 0 when it has no row
Quantity(loc, item) == SumQty(Matching(db["inventory_current"], <<loc, item>>))

\* ledger entries of a key with their sign
Signed(e) == IF e.type \in {"add", "transfer_in"} THEN e.qty ELSE 0 - e.qty
RECURSIVE SumSigned(_)
SumSigned(S) == IF S = {} THEN 0
                ELSE LET e == CHOOSE x \in S : TRUE IN Signed(e) + SumSigned(S \ {e})
LedgerDelta(loc, item) == SumSigned(Matching(db["inventory_ledger"], <<loc, item>>))

\* the ledger rows the call of p has appended, in order
IsLedgerInsert(e) == e.op = "insert" /\ e.table \in LedgerTables
LedgerInserts(p) == SelectSeq(reqs[p], IsLedgerInsert)

\* the queries the model issues against a table
QueriesOf(table) ==
  IF table \in {"inventory_current", "inventory_ledger", "v_inventory",
                "v_inventory_history"}
  THEN {<<>>} \cup {<<l>> : l \in Locs} \cup {<<l, i>> : l \in Locs, i \in Items}
  ELSE {<<>>} \cup {<<l>> : l \in Locs}

\* cache keys that belong to a table: prefix, the table's name, one digest
KeyedFor(c, table) ==
  {k \in DOMAIN c : /\ Len(k) = Len(Tok[table]) + 2
                    /\ IsPrefix(<<cache_prefix>> \o Tok[table], k)}

\* C1: in every mutator the read from which the new state is computed is a
\* fresh remote fetch, never a cache hit.
C1_MutatorReadsFresh ==
  \A p \in Procs :
    call[p].op \in Mutators =>
      \A i \in DOMAIN reqs[p] :
        (/\ reqs[p][i].op = "get"
         /\ \E j \in (i + 1)..Len(reqs[p]) :
              reqs[p][j].op \in WriteOps /\ reqs[p][j].table = reqs[p][i].table)
        => (~reqs[p][i].hit /\ reqs[p][i].fetched = 1)

\* C2: right after a successful write on table T the cache holds no entry
\* keyed for T or for a table or view the dependency map lists for T, and a
\* get of any of them with use_cache=True fetches from the remote store.
C2_WriteInvalidates ==
  \A p \in Procs :
    LET n == Len(reqs[p]) IN
    (n > 0 /\ reqs[p][n].op \in WriteOps) =>
      \A t \in {reqs[p][n].table} \cup Range(Related(reqs[p][n].table)) :
        /\ KeyedFor(cache, t) = {}
        /\ \A q \in QueriesOf(t) : \A o \in get(cache, db, t, q, TRUE) :
             ~o.hit /\ o.fetched = 1

\* C2 witness: a write on inventory_current removed a cached v_inventory entry.
C2_Witness ==
  \E p \in Procs :
    LET n == Len(reqs[p]) IN
    /\ n > 0 /\ reqs[p][n].op \in WriteOps /\ reqs[p][n].table = "inventory_current"
    /\ \E k \in reqs[p][n].cleared : IsPrefix(<<cache_prefix>> \o Tok["v_inventory"], k)

\* C3: between calls, the signed sum of a key's ledger quantities equals the
\* key's current quantity (the initial quantity is 0: the store starts empty).
C3_LedgerConservation ==
  (\A p \in Procs : Idle(p)) =>
    \A loc \in Locs, item \in Items : LedgerDelta(loc, item) = Quantity(loc, item)

\* C4: a finished removeItem with requested quantity q >= current quantity c
\* has deleted the row and appended a 'remove' entry of quantity c.
C4_RemoveRecordsActual ==
  \A p \in Procs :
    (/\ Idle(p) /\ call[p].op = "remove_item" /\ result[p] \in {"deleted", "row"}
     /\ Truthy(call[p].qty) /\ call[p].qty[1] >= call[p].rows[1].qty)
    => /\ \A r \in db["inventory_current"] : r.id # call[p].rows[1].id
       /\ Len(LedgerInserts(p)) = 1
       /\ LedgerInserts(p)[1].data.type = "remove"
       /\ LedgerInserts(p)[1].data.qty = call[p].rows[1].qty

\* C5: there is at most one inventory current-state row per (location, item).
C5_OneRowPerKey ==
  \A loc \in Locs, item \in Items :
    Cardinality(Matching(db["inventory_current"], <<loc, item>>)) <= 1

\* C6: a get with use_cache=True that missed made exactly one remote fetch
\* and left the fetched rows in the cache under the query's key, so that the
\* same get repeated now is a hit that returns these rows.
C6_MissIsCached ==
  \A p \in Procs :
    LET n == Len(reqs[p]) IN
    (n > 0 /\ reqs[p][n].op = "get" /\ reqs[p][n].uc /\ ~reqs[p][n].hit) =>
      LET e == reqs[p][n]
          key == _cache_key(e.table, _hash_query(e.q))
      IN  /\ e.fetched = 1
          /\ CacheHas(cache, key) /\ cache[key] = e.rows
          /\ \A o \in get(cache, db, e.table, e.q, TRUE) :
               o.hit /\ o.fetched = 0 /\ o.rows = e.rows

\* C7: no inventory current-state row has a quantity of 0 or less.
C7_PositiveQuantities == \A r \in db["inventory_current"] : r.qty > 0

\* C8: once removeCurrency has written the new balance, the currency row it
\* read is still stored, none of its denominations is negative, and every
\* denomination of which more was requested than was there is 0.
C8_RemoveCurrencyClamps ==
  \A p \in Procs :
    (\/ pc[p] \in {"rc_ledger", "rc_ret"}
     \/ (Idle(p) /\ call[p].op = "remove_currency" /\ result[p] = "row"))
    => LET current == call[p].rows[1] IN
       \E r \in db["currency_current"] :
         /\ r.id = current.id
         /\ \A d \in Denom :
              /\ r.bal[d] >= 0
              /\ (call[p].amt[d] > current.bal[d] => r.bal[d] = 0)

\* C8 witness: a removal that asked for more of a denomination than the
\* balance held has been written, and the row is there with that denomination 0.
C8_Witness ==
  \E p \in Procs :
    /\ pc[p] = "rc_ledger"
    /\ \E d \in Denom, r \in db["currency_current"] :
         /\ call[p].amt[d] > call[p].rows[1].bal[d]
         /\ \E e \in Denom : call[p].rows[1].bal[e] > 0
         /\ r.id = call[p].rows[1].id /\ r.bal[d] = 0

\* C9: a transfer that returned success has appended exactly two ledger
\* entries, transfer_out at the source and then transfer_in at the
\* destination; every ledger entry has one of the four transaction types.
TransactionTypes == {"add", "remove", "transfer_in", "transfer_out"}
C9_TransferLedgerPair ==
  /\ \A p \in Procs :
       (/\ Idle(p) /\ result[p] = "success"
        /\ call[p].op \in {"transfer_item", "transfer_currency"})
       => LET L == LedgerInserts(p) IN
          /\ Len(L) = 2
          /\ L[1].data.type = "transfer_out" /\ L[1].data.loc = call[p].loc
          /\ L[2].data.type = "transfer_in" /\ L[2].data.loc = call[p].to
  /\ \A e \in db["inventory_ledger"] : e.type \in TransactionTypes
  /\ \A e \in db["currency_ledger"] : e.type \in TransactionTypes

\* C10: a mutator never writes the current-state table before it has
\* appended its ledger entry.
C10_LedgerBeforeCurrent ==
  \A p \in Procs :
    call[p].op \in Mutators =>
      \A j \in DOMAIN reqs[p] :
        (reqs[p][j].op \in WriteOps /\ reqs[p][j].table \in CurrentTables)
        => \E i \in 1..(j - 1) : IsLedgerInsert(reqs[p][i])

\* quantity of an inventory key in a given store
QuantityIn(d, loc, item) == SumQty(Matching(d["inventory_current"], <<loc, item>>))

\* a transferItem call of p that has returned (no request of it failed)
TransferItemDone(p) ==
  Idle(p) /\ call[p].op = "transfer_item" /\ result[p] \in {"success", "error"}

\* C11: after a transferItem(A, B, item, q) with 1 <= q <= A's quantity has
\* returned, A holds q less (no row of A is left when it held exactly q), B
\* holds q more (a row of quantity q when it had none), and the total of the
\* item over A and B is what it was.
C11_TransferConserves ==
  \A p \in Procs :
    LET c == call[p]
        a0 == QuantityIn(c.pre.db, c.loc, c.item)
        b0 == QuantityIn(c.pre.db, c.to, c.item)
    IN  (/\ TransferItemDone(p)
         /\ Truthy(c.qty) /\ 1 <= c.qty[1] /\ c.qty[1] <= a0)
        => LET q == c.qty[1] IN
           /\ Quantity(c.loc, c.item) = a0 - q
           /\ Quantity(c.to, c.item) = b0 + q
           /\ Quantity(c.loc, c.item) + Quantity(c.to, c.item) = a0 + b0
           /\ (a0 = q => Matching(db["inventory_current"], <<c.loc, c.item>>) = {})
           /\ (b0 = 0 => \E r \in db["inventory_current"] :
                            r.loc = c.to /\ r.item = c.item /\ r.qty = q)

\* the cache entries of c0 that are missing from, or changed in, c1
Invalidated(c0, c1) == {k \in DOMAIN c0 : k \notin DOMAIN c1 \/ c1[k] # c0[k]}

C13_TransferCurrencyRejected ==
  \A p \in Procs :
    (/\ Idle(p) /\ call[p].op = "transfer_currency"
     /\ \E d \in Denom : call[p].amt[d] > 0
     /\ Matching(call[p].pre.db["currency_current"], <<call[p].loc>>) = {})
    => /\ result[p] = "error"
       /\ db = call[p].pre.db

\* C14: when a request of a mutator fails, the mutator returns the error
\* value if the request was its ledger append or current-state write (or any
\* step after the initial read), and raises if it was the initial read.
C14_WriteFailureIsErrorValue ==
  \A p \in Procs :
    LET n == Len(reqs[p]) IN
    (Idle(p) /\ call[p].op \in Mutators /\ n > 0 /\ ~reqs[p][n].ok)
    => IF n = 1 /\ reqs[p][1].op = "get"
       THEN result[p] = "raised"
       ELSE result[p] = "error"
\* both callers have finished an addCurrency that read the same balance row
BothReadSameBalance ==
  /\ \A p \in Procs : Idle(p) /\ call[p].op = "add_currency" /\ result[p] = "row"
  /\ call[1].rows # <<>>
  /\ call[1].rows = call[2].rows

\* C15: nothing keeps a second addCurrency from reading a balance between
\* the read and the write of the first; when both calls have read the same
\* balance row, the stored balance is that balance plus the amounts of one
\* call only, while the ledger holds the 'add' entries of both.
C15_LostUpdate ==
  BothReadSameBalance =>
    LET row0 == call[1].rows[1] IN
    /\ \E r \in db["currency_current"] :
         /\ r.id = row0.id
         /\ \E p \in Procs :
              r.bal = [d \in Denom |-> row0.bal[d] + call[p].amt[d]]
    /\ \A p \in Procs :
         /\ Len(LedgerInserts(p)) = 1
         /\ LedgerInserts(p)[1].data \in db["currency_ledger"]
         /\ LedgerInserts(p)[1].data.amt = call[p].amt

\* C15 witness: both calls added coins of a denomination to the same
\* non-zero balance, and the stored balance is short of one of the two.
C15_Witness ==
  /\ BothReadSameBalance
  /\ \E d \in Denom, r \in db["currency_current"] :
       /\ r.id = call[1].rows[1].id
       /\ call[1].rows[1].bal[d] > 0
       /\ call[1].amt[d] > 0 /\ call[2].amt[d] > 0
       /\ r.bal[d] < call[1].rows[1].bal[d] + call[1].amt[d] + call[2].amt[d]
\* k is the cache key of some query on table: prefix, the table's name, digest
IsKeyOf(k, table) ==
  Len(k) = Len(Tok[table]) + 2 /\ IsPrefix(<<cache_prefix>> \o Tok[table], k)

\* C16: the cache entries a write on table T removes are entries of T or of a
\* table or view the dependency map lists for T; entries of every other table
\* or view, and entries stored under other prefixes, stay.
C16_InvalidatesExactly ==
  \A p \in Procs :
    LET n == Len(reqs[p]) IN
    (n > 0 /\ reqs[p][n].op \in WriteOps /\ reqs[p][n].ok) =>
      \A k \in reqs[p][n].cleared :
        \E t \in {reqs[p][n].table} \cup Range(Related(reqs[p][n].table)) :
          IsKeyOf(k, t)
\* the step has made a client operation of p; LastReq is its record
NewRequest(p) == reqs'[p] # reqs[p] /\ reqs'[p] # <<>>
LastReq(p) == reqs'[p][Len(reqs'[p])]

\* a failed operation returned no rows, left the store and every cache entry
\* as they were, and its exception ended the call of p
FailureContained(p) ==
  ~LastReq(p).ok =>
    /\ LastReq(p).rows = <<>> /\ LastReq(p).cleared = {}
    /\ cache' = cache /\ db' = db
    /\ pc'[p] = "idle" /\ result'[p] = "raised"

\* C17 as stated: every get, insert, update and delete sends exactly one
\* remote request, and a failed one is contained as above.
C17_ExactlyOneRequest ==
  [][\A p \in Procs :
       NewRequest(p) => (LastReq(p).sent = 1 /\ FailureContained(p))]_vars

\* C17 amended: a get served from the cache sends no request, every other
\* get, insert, update and delete sends exactly one and is never repeated; a
\* failed one is contained as above.
C17_AtMostOneRequest ==
  [][\A p \in Procs :
       NewRequest(p) =>
         /\ LastReq(p).sent = (IF LastReq(p).op = "get" /\ LastReq(p).hit THEN 0 ELSE 1)
         /\ FailureContained(p)]_vars

\* C17 witness: the current-state write of a mutator failed while the cache
\* held the rows the mutator had read from that table.
C17_Witness ==
  \E p \in Procs :
    LET n == Len(reqs[p]) IN
    /\ Idle(p) /\ result[p] = "raised" /\ n > 1
    /\ ~reqs[p][n].ok /\ reqs[p][n].op \in WriteOps
    /\ KeyedFor(cache, reqs[p][n].table) # {}
LedgerDeltaIn(d, loc, item) == SumSigned(Matching(d["inventory_ledger"], <<loc, item>>))

\* what the call of p has added to the ledger sum and to the quantity of a key
LedgerChange(p, loc) ==
  LedgerDelta(loc, call[p].item) - LedgerDeltaIn(call[p].pre.db, loc, call[p].item)
QuantityChange(p, loc) ==
  Quantity(loc, call[p].item) - QuantityIn(call[p].pre.db, loc, call[p].item)

InventoryMutators == {"add_item", "remove_item", "update_item_quantity", "transfer_item"}

\* an inventory mutator of p ended with a failed write after at least one
\* write of the same call had succeeded
PartialFailure(p) ==
  LET n == Len(reqs[p]) IN
  /\ Idle(p) /\ call[p].op \in InventoryMutators /\ result[p] = "raised"
  /\ n > 1 /\ ~reqs[p][n].ok /\ reqs[p][n].op \in WriteOps
  /\ \E i \in 1..(n - 1) : reqs[p][i].op \in WriteOps

\* the first write of the call of p: always an insert (ledger or new row)
FirstWrite(p) ==
  reqs[p][CHOOSE i \in DOMAIN reqs[p] :
            /\ reqs[p][i].op \in WriteOps
            /\ \A j \in 1..(i - 1) : reqs[p][j].op \notin WriteOps]

\* C18: when a later write of a mutator fails after an earlier write of the
\* same call succeeded, every row the call inserted is still in the store,
\* the failed request is the last one the call made (no compensating
\* write), and, unless the first write carried the quantity 0, the change of
\* the ledger sum and the change of the quantity differ at some location.
C18_NoRollback ==
  \A p \in Procs :
    PartialFailure(p) =>
      LET n == Len(reqs[p]) IN
      /\ \A i \in 1..(n - 1) :
           /\ reqs[p][i].ok
           /\ reqs[p][i].op = "insert" => reqs[p][i].data \in db[reqs[p][i].table]
      /\ FirstWrite(p).data.qty # 0 =>
           \E loc \in Locs : LedgerChange(p, loc) # QuantityChange(p, loc)

\* C18 witness: removeItem appended its 'remove' entry of a quantity that is
\* not 0 and then failed to delete or update the row.
C18_Witness ==
  \E p \in Procs :
    /\ PartialFailure(p) /\ call[p].op = "remove_item"
    /\ FirstWrite(p).table = "inventory_ledger" /\ FirstWrite(p).data.qty > 0
    /\ FirstWrite(p).data \in db["inventory_ledger"]
    /\ QuantityChange(p, call[p].loc) = 0
\* C19: no step removes or changes a ledger entry, the only write a mutator
\* issues against a ledger table is an insert, and a call appends no entry
\* twice: its ledger entries differ in location or transaction type.
C19_LedgerAppendOnly ==
  [][/\ \A t \in LedgerTables : db[t] \subseteq db'[t]
     /\ \A p \in Procs :
          /\ \A i \in DOMAIN reqs'[p] :
               (reqs'[p][i].table \in LedgerTables /\ reqs'[p][i].op # "get")
               => reqs'[p][i].op = "insert"
          /\ LET L == SelectSeq(reqs'[p], IsLedgerInsert) IN
             \A i, j \in DOMAIN L :
               (L[i].data.loc = L[j].data.loc /\ L[i].data.type = L[j].data.type)
               => i = j]_vars

\* C19 witness: removeItem has deleted the current-state row, and the ledger
\* holds the entries it held before the call together with the new one.
C19_Witness ==
  \E p \in Procs :
    /\ Idle(p) /\ call[p].op = "remove_item" /\ result[p] = "deleted"
    /\ call[p].pre.db["inventory_ledger"] # {}
    /\ call[p].pre.db["inventory_ledger"] \subseteq db["inventory_ledger"]
    /\ call[p].pre.db["inventory_ledger"] # db["inventory_ledger"]
    /\ Matching(db["inventory_current"], InvKey(p)) = {}
\* the last operation on the cache store was clear_prefix
Cleared == reqs[1] # <<>> /\ reqs[1][1].op = "clear_prefix"

\* C20: clear_prefix(P) removes the keys that start with P and no other,
\* returns their number, leaves every other key with its value and the entry
\* count reduced by that number; clear_prefix(P) once more removes nothing
\* and returns 0.
C20_PrefixPartition ==
  Cleared =>
    LET e == reqs[1][1]
        K_match == {k \in DOMAIN e.before : IsPrefix(e.key, k)}
        K_rest == (DOMAIN e.before) \ K_match
    IN  /\ DOMAIN cache = K_rest
        /\ \A k \in K_rest : CacheHas(cache, k) /\ cache[k] = e.before[k]
        /\ \A k \in K_match : ~CacheHas(cache, k)
        /\ e.count = Cardinality(K_match)
        /\ CacheLen(cache) = CacheLen(e.before) - e.count
        /\ clear_prefix_count(cache, e.key) = 0
        /\ clear_prefix(cache, e.key) = cache

\* C20 witness: clear_prefix removed two of the entries and left two.
C20_Witness ==
  /\ Cleared
  /\ reqs[1][1].count = 2
  /\ CacheLen(cache) = 2

(* ------------------------- the persistent store ------------------------ *)
\* the last operation on the persistent store, if any
DirOps == {"set", "get", "clear_prefix", "clear", "construct"}
LastOp == IF reqs[1] # <<>> /\ reqs[1][1].op \in DirOps THEN reqs[1][1].op ELSE "none"
Last == reqs[1][1]

\* C21: after every completed set, clear_prefix or clear of a persistent
\* store the keys of the index file, the keys that have a value file and the
\* keys of the in-memory map are the same set.
C21_IndexMirrorsFiles ==
  LastOp \in {"set", "clear_prefix", "clear"} =>
    /\ DOMAIN cache.index = DOMAIN cache.files
    /\ DOMAIN cache.files = DOMAIN cache.mem

\* C21 witness: three entries were stored and clear_prefix removed two of
\* them from memory, directory and index.
C21_Witness ==
  /\ LastOp = "clear_prefix"
  /\ Cardinality(DOMAIN Last.before.index) = 3
  /\ Last.key = <<"campaign", "v", "characters">>
  /\ Last.ret = 2
  /\ DOMAIN cache.index = {<<"campaign", "v", "inventory", "abc123">>}
  /\ Cardinality(DOMAIN cache.files) = 1

\* the store s read at hour t
At(s, t) == [s EXCEPT !.now = t]
\* k was set in s and has neither been cleared nor expired
Live(s, k) == k \in DOMAIN s.mem /\ ~Expired(s, k)

\* C22: a store freshly constructed on the directory of a persistent store
\* returns, for every key that was set and neither cleared nor expired, the
\* value the old instance held, and absent for every key the old instance
\* no longer held (removed by clear_prefix or clear, or never set).
C22_RoundTrip ==
  LastOp = "construct" =>
    \A k \in DirKeys :
      /\ Live(Last.before, k) =>
           Lookup(At(cache, Last.before.now), k) = Last.before.mem[k].value
      /\ k \notin DOMAIN Last.before.mem => Lookup(cache, k) = Absent

\* C22 witness: the new instance holds the inventory entry written an hour
\* before it was constructed and does not hold the character entries.
C22_Witness ==
  /\ LastOp = "construct"
  /\ Last.before.now = 1
  /\ DOMAIN Last.before.mem = {<<"campaign", "v", "inventory", "abc123">>}
  /\ Last.before.mem[<<"campaign", "v", "inventory", "abc123">>].createdAt = 0
  /\ Lookup(At(cache, 1), <<"campaign", "v", "inventory", "abc123">>) = "Nico"
  /\ Lookup(cache, <<"campaign", "v", "characters", "abc123">>) = Absent

\* C23: a get of an entry set at hour T by a store with ttl H returns the
\* value when it reads before T+H and absent when it reads at T+H or later;
\* the get that finds the entry expired removes it from the store.
C23_TtlExpiry ==
  (LastOp = "get" /\ Last.key \in DOMAIN Last.before.mem) =>
    LET k == Last.key
        T == Last.before.mem[k].createdAt
        read == Last.before.now
    IN  /\ read < T + TtlHours =>
             /\ Last.ret = Last.before.mem[k].value
             /\ k \in DOMAIN cache.mem
        /\ read >= T + TtlHours =>
             /\ Last.ret = Absent
             /\ k \notin DOMAIN cache.mem
             /\ k \notin DOMAIN cache.index
             /\ k \notin DOMAIN cache.files

\* C23 witness: a get exactly ttl hours after the set returned absent and
\* evicted the entry.
C23_Witness ==
  /\ LastOp = "get"
  /\ Last.key \in DOMAIN Last.before.mem
  /\ Last.before.now = Last.before.mem[Last.key].createdAt + TtlHours
  /\ Last.ret = Absent
  /\ Last.key \notin DOMAIN cache.mem

\* C24: after set(k, v) a get of k yields v, also when k already held
\* another value, and there is one entry for k: the number of entries grew
\* by one if k was not in the store and did not grow if it was.
C24_Overwrite ==
  LastOp = "set" =>
    LET k == Last.key
        grown == IF k \in DOMAIN Last.before.mem THEN 0 ELSE 1
    IN  /\ Lookup(At(cache, Last.before.now), k) = Last.ret
        /\ CacheLen(cache.mem) = CacheLen(Last.before.mem) + grown
        /\ CacheLen(cache.index) = CacheLen(Last.before.index) + grown
        /\ CacheLen(cache.files) = CacheLen(Last.before.files) + grown

\* C24 witness: set(k, "Olaf") found k holding "Nico"; the store still has
\* one entry and it holds "Olaf".
C24_Witness ==
  /\ LastOp = "set"
  /\ Last.ret = "Olaf"
  /\ DOMAIN Last.before.mem = {Last.key}
  /\ Lookup(Last.before, Last.key) = "Nico"
  /\ CacheLen(cache.mem) = 1
  /\ Lookup(At(cache, Last.before.now), Last.key) = "Olaf"

(* -------------------------- the failing step --------------------------- *)
\* the call of p, begun on a store of positive quantities, ended with the
\* exception of its n-th request, a write
FailedWrite(p, n) ==
  /\ Idle(p) /\ result[p] = "raised" /\ call[p].op \in InventoryMutators
  /\ n = Len(reqs[p]) /\ n > 0
  /\ ~reqs[p][n].ok /\ reqs[p][n].op \in WriteOps
  /\ \A r \in call[p].pre.db["inventory_current"] : r.qty > 0

\* C25: when a write of a mutator fails, the error delivered to the caller
\* tells which step failed: no earlier write of the same call, had it been
\* the one to fail, would have delivered the same error.
C25_FailingStepIdentified ==
  \A p \in Procs : \A n \in 1..6 :
    FailedWrite(p, n) =>
      \A i \in 1..(n - 1) :
        reqs[p][i].op \in WriteOps => str_e(p, i) # str_e(p, n)

(* ------------------------- reads past the cache ------------------------ *)
\* the last call of p was health_check or create_inventory_snapshot
UtilityDone(p) == Idle(p) /\ result[p] \in {"healthy", "snapshot"}

\* C26: every get of health_check and create_inventory_snapshot, made with
\* use_cache False, is a remote fetch of the rows the store holds and no
\* cache hit, and the call leaves the cache as it found it.
C26_BypassLeavesCache ==
  \A p \in Procs :
    UtilityDone(p) =>
      /\ cache = call[p].pre.cache
      /\ \A i \in DOMAIN reqs[p] :
           LET e == reqs[p][i] IN
           /\ e.op = "get" /\ ~e.uc /\ ~e.hit /\ e.fetched = 1
           /\ e.rows \in RemoteFetch(db, e.table, e.q)

\* C26 witness: a snapshot that read inventory rows and their ledger while
\* the cache was in use (it held an entry, so a cached get would store).
C26_Witness ==
  /\ UtilityDone(1) /\ result[1] = "snapshot"
  /\ Len(reqs[1]) = 8
  /\ reqs[1][4].rows # <<>> /\ reqs[1][7].rows # <<>>
  /\ CacheTruthy(call[1].pre.cache)

(* --------------------------- explicit quantity ------------------------- *)
\* the rows of the key of p's call in the store the call found
SourceRows(p) == Matching(call[p].pre.db["inventory_current"], InvKey(p))

\* C27: a remove_item or transfer_item given an explicit quantity q with
\* 0 <= q < current quantity keeps the source row and reduces it by exactly
\* q (q = 0 leaves it unchanged); only an omitted quantity means "all".
C27_ExplicitQuantity ==
  \A p \in Procs :
    (/\ Idle(p) /\ call[p].op \in {"remove_item", "transfer_item"}
     /\ result[p] \in {"row", "deleted", "success"}
     /\ call[p].pre.cache = EmptyCache
     /\ call[p].qty # None
     /\ Cardinality(SourceRows(p)) = 1)
    => \A row \in SourceRows(p) :
         (0 <= call[p].qty[1] /\ call[p].qty[1] < row.qty) =>
           Matching(db["inventory_current"], InvKey(p)) =
             {[row EXCEPT !.qty = @ - call[p].qty[1]]}

(* ------------------------- reads beside writes ------------------------- *)
\* the cache entry of get_inventory(loc), if there is one, holds the rows
\* the store has now
Coherent(loc) ==
  LET cache_key == _cache_key("v_inventory", _hash_query(<<loc>>)) IN
  CacheHas(cache, cache_key) =>
    cache[cache_key] \in RemoteFetch(db, "v_inventory", <<loc>>)

\* C28: under concurrent callers, once a write to inventory_current has been
\* applied and its invalidation done, the cache holds no rows of the
\* dependent view v_inventory that were fetched before the write, so no
\* later get returns them: every entry left for the view holds the rows the
\* store has now.
C28_NoStaleAfterWrite == \A loc \in Locs : Coherent(loc)

(* ------------------------- currency conservation ----------------------- *)
RECURSIVE SumBal(_, _)
SumBal(S, d) == IF S = {} THEN 0
                ELSE LET r == CHOOSE x \in S : TRUE IN r.bal[d] + SumBal(S \ {r}, d)

\* balance of a denomination at a location in a store: 0 when it has no row
BalanceIn(s, loc, d) == SumBal(Matching(s["currency_current"], <<loc>>), d)

\* C29: after a transferCurrency from A to B that returned success, for each
\* denomination the sum of A's and B's balances is what it was before the
\* call, also when more was requested than A held.
C29_TransferCurrencyConserves ==
  \A p \in Procs :
    (/\ Idle(p) /\ call[p].op = "transfer_currency" /\ result[p] = "success"
     /\ call[p].pre.cache = EmptyCache
     /\ Cardinality(Matching(call[p].pre.db["currency_current"], <<call[p].loc>>)) = 1)
    => \A d \in Denom :
         BalanceIn(db, call[p].loc, d) + BalanceIn(db, call[p].to, d)
           = BalanceIn(call[p].pre.db, call[p].loc, d)
             + BalanceIn(call[p].pre.db, call[p].to, d)

\* 'add' amounts minus 'remove' amounts of a denomination in the currency
\* ledger of a location in a store
RECURSIVE SumAmt(_, _)
SumAmt(S, d) ==
  IF S = {} THEN 0
  ELSE LET e == CHOOSE x \in S : TRUE
       IN  (IF e.type = "add" THEN e.amt[d] ELSE 0 - e.amt[d]) + SumAmt(S \ {e}, d)
CurrencyDeltaIn(s, loc, d) == SumAmt(Matching(s["currency_ledger"], <<loc>>), d)

\* C30: a completed addCurrency or removeCurrency with non-negative amounts
\* changes, for each denomination, the location's ledger sum ('add' amounts
\* minus 'remove' amounts) by as much as it changes the location's balance;
\* hence over any sequence of such calls the ledger sum equals final balance
\* minus initial balance.
C30_CurrencyLedgerConservation ==
  \A p \in Procs :
    (/\ Idle(p) /\ call[p].op \in {"add_currency", "remove_currency"}
     /\ result[p] = "row"
     /\ call[p].pre.cache = EmptyCache
     /\ Cardinality(Matching(call[p].pre.db["currency_current"], <<call[p].loc>>)) <= 1)
    => \A d \in Denom :
         CurrencyDeltaIn(db, call[p].loc, d) - CurrencyDeltaIn(call[p].pre.db, call[p].loc, d)
           = BalanceIn(db, call[p].loc, d) - BalanceIn(call[p].pre.db, call[p].loc, d)

====
